---- MODULE Spec2Model ----
(***************************************************************************)
(* Model of opentelemetry/instrumentation/openai/patch.py: the             *)
(* chat_completions_create interception wrapper (traced_method) and the    *)
(* StreamWrapper that traces a streamed chat completion.                   *)
(*                                                                         *)
(* Python values.  Optional strings (ids, model names, finish reasons,     *)
(* delta text) are TLA+ strings with the reserved string None standing for *)
(* Python's None.  Every other Python object is a record with a field t    *)
(* naming its type, so that "x is None" is x.t = "NoneType".               *)
(*                                                                         *)
(* The span and the event logger are collaborators: the span is modelled   *)
(* by the log of the calls made on it, the event logger by the sequence of *)
(* events emitted.  The upstream stream is an iterator with generator      *)
(* semantics (openai.Stream): once it raised StopIteration or a failure,   *)
(* every later next() raises StopIteration.                                *)
(***************************************************************************)
EXTENDS Integers, Sequences, FiniteSets, TLC

\* ---------------------------------------------------------------- bounds
MaxChunks == 2      \* arbitrary chunks the upstream yields before it must stop
MaxEnds == 2        \* span.end() calls after which no finalizing call is explored

\* ---------------------------------------------------------------- values
None == "None"
PyNone == [t |-> "NoneType"]
NOT_GIVEN == [t |-> "NotGiven"]
PyStr(s) == [t |-> "str", v |-> s]
PyInt(i) == [t |-> "int", v |-> i]
PyList(l) == [t |-> "list", v |-> l]
PyOptStr(s) == IF s = None THEN PyNone ELSE PyStr(s)

\* Python's `x or d` on an optional string: None and "" are falsy.
StrOr(x, d) == IF x = None \/ x = "" THEN d ELSE x

Errors == {[t |-> "APIError", msg |-> "boom"], [t |-> "KeyError", msg |-> "k"]}

Usage(p, c) == [t |-> "usage", prompt_tokens |-> p, completion_tokens |-> c]
Delta(text) == [t |-> "delta", content |-> text]
Choice(i, fr, d) == [t |-> "choice", index |-> i, finish_reason |-> fr, delta |-> d]
Chunk(id, model, usage, choices) ==
    [id |-> id, model |-> model, usage |-> usage, choices |-> choices]

\* The three chunks of the end-to-end scenario (requested choice count 2).
Scenario ==
    << Chunk("r1", None, PyNone, PyList(<<Choice(0, None, Delta("A"))>>)),
       Chunk(None, None, PyNone, PyList(<<Choice(1, None, Delta("B"))>>)),
       Chunk(None, None, PyNone,
             PyList(<<Choice(0, "stop", Delta("!")), Choice(1, "stop", Delta(None))>>)) >>

\* The worked examples: ids [null, "abc", "xyz"], usage (10, 1) then (10, 2),
\* and the text deltas "Hel", "lo" for index 0.
IdExample ==
    << Chunk(None, None, PyNone, PyNone),
       Chunk("abc", "m1", PyNone, PyNone),
       Chunk("xyz", "m2", PyNone, PyNone) >>

UsageExample ==
    << Chunk(None, None, Usage(10, 1), PyList(<<>>)),
       Chunk(None, None, Usage(10, 2), PyList(<<>>)),
       Chunk(None, None, PyNone, PyList(<<>>)) >>

TextExample ==
    << Chunk(None, None, PyNone, PyList(<<Choice(0, None, Delta("Hel"))>>)),
       Chunk(None, None, PyNone, PyList(<<Choice(0, None, Delta("lo"))>>)) >>

Examples == {Scenario, IdExample, UsageExample, TextExample}

\* Chunks the upstream may yield in any order: two of the scenario's, a chunk
\* with model and usage, a falsy choice, a null delta and an empty text, and
\* a chunk with a second id, model and usage and a delta for index 1.
Chunks ==
    { Scenario[1], Scenario[3],
      Chunk(None, "m1", Usage(10, 1),
            PyList(<<PyNone, Choice(0, "length", PyNone), Choice(0, None, Delta(""))>>)),
      Chunk("r2", "m2", Usage(10, 2), PyList(<<Choice(1, None, Delta("B"))>>)) }

\* Indices the server uses are below the requested choice count.
InRange(chunk, n) ==
    chunk.choices.t = "NoneType" \/
    \A k \in 1..Len(chunk.choices.v) :
        chunk.choices.v[k].t = "NoneType" \/ chunk.choices.v[k].index < n

ChunksFor(n) == {c \in Chunks : InRange(c, n)}

ExampleChunks(n) ==
    {c \in UNION {{ex[k] : k \in 1..Len(ex)} : ex \in Examples} : InRange(c, n)}

\* The upstream yields up to MaxChunks arbitrary chunks, or one of the
\* example streams: chunk may follow the chunks yielded so far.
MayYield(yielded, chunk, n) ==
    \/ Len(yielded) < MaxChunks /\ chunk \in ChunksFor(n)
    \/ \E ex \in Examples :
          /\ Len(yielded) < Len(ex)
          /\ SubSeq(ex, 1, Len(yielded)) = yielded
          /\ ex[Len(yielded) + 1] = chunk

\* ------------------------------------------------------------ span, events
NewSpan(sampled) == [sampled |-> sampled, log |-> <<>>]

RECURSIVE CountEnds(_)
CountEnds(log) ==
    IF log = <<>> THEN 0
    ELSE (IF log[1].op = "end" THEN 1 ELSE 0) + CountEnds(Tail(log))

is_recording(span) == span.sampled /\ CountEnds(span.log) = 0

set_attribute(span, name, value) ==
    [span EXCEPT !.log = Append(@, [op |-> "set_attribute", name |-> name, value |-> value])]

set_status(span, code, description) ==
    [span EXCEPT !.log = Append(@, [op |-> "set_status", code |-> code, description |-> description])]

end(span) == [span EXCEPT !.log = Append(@, [op |-> "end"])]

\* _set_span_attribute: the condition is
\*   value is not None and (value != "" or value != NOT_GIVEN)
set_span_attribute(span, name, value) ==
    IF value.t # "NoneType"
       /\ (~(value.t = "str" /\ value.v = "") \/ value.t # "NotGiven")
    THEN set_attribute(span, name, value)
    ELSE span

set_response_attributes(span, response_model, response_id, in_tokens, out_tokens) ==
    IF ~is_recording(span) THEN span
    ELSE LET s1 == set_span_attribute(span, "gen_ai.response.model", response_model)
             s2 == set_span_attribute(s1, "gen_ai.response.id", response_id)
             s3 == set_span_attribute(s2, "gen_ai.usage.input_tokens", in_tokens)
         IN  set_span_attribute(s3, "gen_ai.usage.output_tokens", out_tokens)

\* faulty variant: the span status is not set
record_error_NoStatus(error, span) ==
    end(set_attribute(span, "error.type", PyStr(error.t)))

\* faulty variant: the span is left for the caller to end
record_error_NoEnd(error, span) ==
    set_status(set_attribute(span, "error.type", PyStr(error.t)), "ERROR", error.msg)

\* _record_error: the span after the three calls; the function then always
\* raises `error`, which the callers below account for.
record_error(error, span) ==
    end(set_status(set_attribute(span, "error.type", PyStr(error.t)), "ERROR", error.msg))

\* ------------------------------------------------------- request helpers
PyBool(b) == [t |-> "bool", v |-> b]

\* _is_streaming: bool(stream) and stream != NOT_GIVEN (NOT_GIVEN and None are falsy)
is_streaming(kwargs) ==
    (kwargs.stream.t = "bool" /\ kwargs.stream.v) /\ kwargs.stream.t # "NotGiven"

\* kwargs.get("n") or 1
NumChoices(kwargs) ==
    IF kwargs.n.t = "int" /\ kwargs.n.v # 0 THEN kwargs.n.v ELSE 1

\* _get_prop on a dict message: a missing key reads as None
get_prop(msg, prop) == msg[prop]

ToolCallBody(tc) == [id |-> tc.id, type |-> tc.type,
                     function |-> [name |-> tc.name, arguments |-> tc.arguments]]

ToolCallBodies(tcs) == [k \in 1..Len(tcs) |-> ToolCallBody(tcs[k])]

Event(name, body) == [name |-> name, body |-> body]

\* _message_to_event (a role outside the four yields Python's None)
message_to_event(message) ==
    LET role == get_prop(message, "role")
        content == get_prop(message, "content")
        tool_calls == get_prop(message, "tool_calls")
    IN  CASE role = "user" -> Event("gen_ai.user.message", [content |-> content])
          [] role = "system" -> Event("gen_ai.system.message", [content |-> content])
          [] role = "assistant" ->
                IF tool_calls.t = "NoneType" \/ tool_calls.v = <<>>
                THEN Event("gen_ai.assistant.message", [content |-> content])
                ELSE Event("gen_ai.assistant.message",
                           [tool_calls |-> ToolCallBodies(tool_calls.v),
                            content |-> IF content = None \/ content = "" THEN None ELSE content])
          [] role = "tool" ->
                Event("gen_ai.tool.message",
                      [content |-> content, id |-> get_prop(message, "tool_call_id")])
          [] OTHER -> PyNone

\* _choice_to_message: a key the code leaves out of the dict reads as None
choice_to_message(choice) ==
    IF choice.message.t = "NoneType"
    THEN [content |-> None, tool_calls |-> PyNone]
    ELSE [content |-> choice.message.content,
          tool_calls |-> IF choice.message.tool_calls.t = "NoneType" THEN PyNone
                         ELSE PyList(ToolCallBodies(choice.message.tool_calls.v))]

\* ------------------------------------------------------------ ChoiceBuffer
ChoiceBuffer(index) ==
    [index |-> index, finish_reason |-> None, content_str |-> "", role |-> None]

\* faulty variant: the delta is put in front of the accumulated text
append_Prepend(buf, choice) ==
    LET b1 == IF choice.finish_reason # None
              THEN [buf EXCEPT !.finish_reason = choice.finish_reason]
              ELSE buf
    IN  IF choice.delta.t # "NoneType" /\ choice.delta.content # None
        THEN [b1 EXCEPT !.content_str = choice.delta.content \o @]
        ELSE b1

\* ChoiceBuffer.append
append(buf, choice) ==
    LET b1 == IF choice.finish_reason # None
              THEN [buf EXCEPT !.finish_reason = choice.finish_reason]
              ELSE buf
    IN  IF choice.delta.t # "NoneType" /\ choice.delta.content # None
        THEN [b1 EXCEPT !.content_str = @ \o choice.delta.content]
        ELSE b1

\* ----------------------------------------------------------- StreamWrapper
\* StreamWrapper.setup
setup(self) ==
    IF ~self.span_started THEN [self EXCEPT !.span_started = TRUE] ELSE self

\* StreamWrapper.__init__ (the stream, the span and the event logger it keeps
\* are the variables upstream, span and events)
StreamWrapper(num_choices) ==
    setup([choices |-> [i \in 1..num_choices |-> ChoiceBuffer(i - 1)],
           completion_tokens |-> 0,
           response_model |-> None,
           response_id |-> None,
           num_choices |-> num_choices,
           prompt_tokens |-> 0,
           span_started |-> FALSE])

\* faulty variant: the delta is applied to the accumulator after its own
RECURSIVE AppendChoices_WrongIndex(_, _, _)
AppendChoices_WrongIndex(bufs, choices, k) ==
    IF k > Len(choices) THEN bufs
    ELSE LET choice == choices[k]
         IN  IF choice.t # "NoneType"
             THEN AppendChoices_WrongIndex(
                      [bufs EXCEPT ![((choice.index + 1) % Len(bufs)) + 1] = append(@, choice)],
                      choices, k + 1)
             ELSE AppendChoices_WrongIndex(bufs, choices, k + 1)

\* the loop of process_chunk over chunk.choices, from position k on
RECURSIVE AppendChoices(_, _, _)
AppendChoices(bufs, choices, k) ==
    IF k > Len(choices) THEN bufs
    ELSE LET choice == choices[k]
         IN  IF choice.t # "NoneType"
             THEN AppendChoices([bufs EXCEPT ![choice.index + 1] = append(@, choice)],
                                choices, k + 1)
             ELSE AppendChoices(bufs, choices, k + 1)

\* faulty variant: every chunk overwrites response_id and response_model
process_chunk_Overwrite(self, chunk) ==
    LET s1 == [self EXCEPT !.response_id = chunk.id]
        s2 == [s1 EXCEPT !.response_model = chunk.model]
        s3 == IF chunk.usage.t # "NoneType"
              THEN [s2 EXCEPT !.completion_tokens = chunk.usage.completion_tokens,
                              !.prompt_tokens = chunk.usage.prompt_tokens]
              ELSE s2
    IN  IF chunk.choices.t # "NoneType"
        THEN [s3 EXCEPT !.choices = AppendChoices(@, chunk.choices.v, 1)]
        ELSE s3

\* faulty variant: the token counts are summed over the chunks
process_chunk_SumUsage(self, chunk) ==
    LET s1 == IF self.response_id = None
              THEN [self EXCEPT !.response_id = chunk.id] ELSE self
        s2 == IF s1.response_model = None
              THEN [s1 EXCEPT !.response_model = chunk.model] ELSE s1
        s3 == IF chunk.usage.t # "NoneType"
              THEN [s2 EXCEPT !.completion_tokens = @ + chunk.usage.completion_tokens,
                              !.prompt_tokens = @ + chunk.usage.prompt_tokens]
              ELSE s2
    IN  IF chunk.choices.t # "NoneType"
        THEN [s3 EXCEPT !.choices = AppendChoices(@, chunk.choices.v, 1)]
        ELSE s3

\* StreamWrapper.process_chunk
process_chunk(self, chunk) ==
    LET s1 == IF self.response_id = None
              THEN [self EXCEPT !.response_id = chunk.id] ELSE self
        s2 == IF s1.response_model = None
              THEN [s1 EXCEPT !.response_model = chunk.model] ELSE s1
        s3 == IF chunk.usage.t # "NoneType"
              THEN [s2 EXCEPT !.completion_tokens = chunk.usage.completion_tokens,
                              !.prompt_tokens = chunk.usage.prompt_tokens]
              ELSE s2
    IN  IF chunk.choices.t # "NoneType"
        THEN [s3 EXCEPT !.choices = AppendChoices(@, chunk.choices.v, 1)]
        ELSE s3

\* faulty variant: the event carries a one-based index
ChoiceEvent_OneBased(choice) ==
    Event("gen_ai.choice",
          [index |-> choice.index + 1,
           finish_reason |-> choice.finish_reason,
           message |-> [content |-> choice.content_str]])

\* the gen_ai.choice event cleanup builds for one ChoiceBuffer
ChoiceEvent(choice) ==
    Event("gen_ai.choice",
          [index |-> choice.index,
           finish_reason |-> choice.finish_reason,
           message |-> [content |-> choice.content_str]])

FinishReasons(choices) ==
    [k \in 1..Len(choices) |-> StrOr(choices[k].finish_reason, "error")]

\* faulty variant: a successful finalization clears the accumulated text
cleanup_Reset(self, sp, evs, exc_val) ==
    IF self.span_started
    THEN LET s1 == set_response_attributes(sp, PyOptStr(self.response_model),
                       PyOptStr(self.response_id), PyInt(self.prompt_tokens),
                       PyInt(self.completion_tokens))
             evs1 == evs \o [k \in 1..Len(self.choices) |-> ChoiceEvent(self.choices[k])]
             s2 == set_span_attribute(s1, "gen_ai.response.finish_reasons",
                                      PyList(FinishReasons(self.choices)))
         IN  IF exc_val.t # "NoneType"
             THEN [self |-> self, span |-> record_error(exc_val, s2),
                   events |-> evs1, raised |-> exc_val]
             ELSE [self |-> [self EXCEPT !.span_started = FALSE,
                                         !.choices = [k \in 1..Len(@) |-> ChoiceBuffer(k - 1)]],
                   span |-> end(s2), events |-> evs1, raised |-> PyNone]
    ELSE [self |-> self, span |-> sp, events |-> evs, raised |-> PyNone]

\* StreamWrapper.cleanup.  raised is the exception that leaves cleanup
\* (PyNone when it returns): _record_error raises, so the two statements
\* after it run only when exc_val is None.
cleanup(self, sp, evs, exc_val) ==
    IF self.span_started
    THEN LET s1 == set_response_attributes(sp, PyOptStr(self.response_model),
                       PyOptStr(self.response_id), PyInt(self.prompt_tokens),
                       PyInt(self.completion_tokens))
             evs1 == evs \o [k \in 1..Len(self.choices) |-> ChoiceEvent(self.choices[k])]
             s2 == set_span_attribute(s1, "gen_ai.response.finish_reasons",
                                      PyList(FinishReasons(self.choices)))
         IN  IF exc_val.t # "NoneType"
             THEN [self |-> self, span |-> record_error(exc_val, s2),
                   events |-> evs1, raised |-> exc_val]
             ELSE [self |-> [self EXCEPT !.span_started = FALSE], span |-> end(s2),
                   events |-> evs1, raised |-> PyNone]
    ELSE [self |-> self, span |-> sp, events |-> evs, raised |-> PyNone]

\* ------------------------------------------------------------------ inputs
OptionalArg == {PyNone, NOT_GIVEN, PyInt(1)}

Messages == << [role |-> "system", content |-> "be brief", tool_calls |-> PyNone, tool_call_id |-> None],
               [role |-> "user", content |-> "hi", tool_calls |-> PyNone, tool_call_id |-> None] >>

KwargsProduct ==
    [model : {"gpt-4"},
     stream : {PyNone, NOT_GIVEN, PyBool(FALSE), PyBool(TRUE)},
     n : {PyNone, PyInt(1), PyInt(2)},
     temperature : OptionalArg,
     top_p : {PyNone},
     max_tokens : {PyNone},
     presence_penalty : {PyNone},
     frequency_penalty : {PyNone},
     messages : {Messages}]

\* The request attributes are recorded before the call branches on streaming,
\* so the optional argument is varied on the non-streaming calls only.
Kwargs == {kw \in KwargsProduct : is_streaming(kw) => kw.temperature = PyNone}

\* A StreamWrapper keeps only the choice count of the request.
NoKwargs == [model |-> None]

Message(content, tool_calls) == [t |-> "message", content |-> content, tool_calls |-> tool_calls]
ResultChoice(i, fr, m) == [t |-> "choice", index |-> i, finish_reason |-> fr, message |-> m]
ChatCompletion(id, model, usage, choices) ==
    [t |-> "ChatCompletion", id |-> id, model |-> model, usage |-> usage, choices |-> choices]

\* Complete responses the wrapped call may return.
Results ==
    { ChatCompletion("r1", "m1", Usage(10, 2),
                     PyList(<<ResultChoice(0, "stop", Message("A", PyNone))>>)),
      ChatCompletion("r2", "m2", PyNone,
                     PyList(<<ResultChoice(0, None,
                                  Message(None, PyList(<<[id |-> "c1", type |-> "function",
                                                         name |-> "f", arguments |-> "{}"]>>))),
                              ResultChoice(1, "length", PyNone)>>)),
      ChatCompletion("r1", "m1", PyNone, PyNone) }

RawStream == [t |-> "Stream"]
WrapperRef == [t |-> "StreamWrapper"]
StopIteration == [t |-> "StopIteration"]
NoWrapper == [span_started |-> FALSE, num_choices |-> 0]
NoSpan == NewSpan(FALSE)

Returns(op, value) == [op |-> op, kind |-> "return", value |-> value, exc |-> PyNone, arg |-> PyNone]
Raises(op, exc) == [op |-> op, kind |-> "raise", value |-> PyNone, exc |-> exc, arg |-> PyNone]

VARIABLES
    pc,          \* "call": traced_method not yet called; "stream": a StreamWrapper
                 \* was returned; "returned" / "raised": the call is over
    kwargs,      \* the arguments of the intercepted call
    span,        \* the span of the call: sampling decision and log of calls on it
    events,      \* events emitted on the event logger, in order
    self,        \* the StreamWrapper's fields
    upstream,    \* chunks the wrapped stream has yielded so far, in order
    stream_raised, \* what the wrapped stream last raised (PyNone while it yields)
    returned,    \* chunks __next__ has returned to the caller, in order
    outcome,     \* what the last call returned or raised to the caller
    triggered    \* a finalization trigger has occurred on the wrapper

vars == <<pc, kwargs, span, events, self, upstream, stream_raised, returned, outcome, triggered>>

Init ==
    /\ pc = "call"
    /\ kwargs \in Kwargs
    /\ span = NoSpan
    /\ events = <<>>
    /\ self = NoWrapper
    /\ upstream = <<>>
    /\ stream_raised = PyNone
    /\ returned = <<>>
    /\ outcome = [op |-> "none", kind |-> "none", value |-> PyNone, exc |-> PyNone, arg |-> PyNone]
    /\ triggered = FALSE

\* lines 37-48: request attributes and one event per input message
RequestSpan(sp, kw) ==
    IF is_recording(sp)
    THEN LET s1 == set_attribute(sp, "gen_ai.system", PyStr("openai"))
             s2 == set_attribute(s1, "gen_ai.operation.name", PyStr("chat"))
             s3 == set_attribute(s2, "gen_ai.request.model", PyOptStr(kw.model))
             s4 == set_span_attribute(s3, "gen_ai.request.temperature", kw.temperature)
             s5 == set_span_attribute(s4, "gen_ai.request.top_p", kw.top_p)
             s6 == set_span_attribute(s5, "gen_ai.request.max_tokens", kw.max_tokens)
             s7 == set_span_attribute(s6, "gen_ai.request.presence_penalty", kw.presence_penalty)
         IN  set_span_attribute(s7, "gen_ai.request.frequency_penalty", kw.frequency_penalty)
    ELSE sp

RequestEvents(sp, kw) ==
    IF is_recording(sp)
    THEN [k \in 1..Len(kw.messages) |-> message_to_event(kw.messages[k])]
    ELSE <<>>

\* lines 65-81: the non-streaming response is recorded and the span ended
ResponseSpan(sp, result) ==
    LET s1 == set_response_attributes(sp, PyOptStr(result.model), PyOptStr(result.id),
                  IF result.usage.t # "NoneType" THEN PyInt(result.usage.prompt_tokens) ELSE PyNone,
                  IF result.usage.t # "NoneType" THEN PyInt(result.usage.completion_tokens) ELSE PyNone)
        finish_reasons ==
            IF result.choices.t # "NoneType"
            THEN [k \in 1..Len(result.choices.v) |->
                      StrOr(result.choices.v[k].finish_reason, "error")]
            ELSE <<>>
    IN  end(set_attribute(s1, "gen_ai.response.finish_reasons", PyList(finish_reasons)))

ResponseEvents(result) ==
    IF result.choices.t # "NoneType"
    THEN [k \in 1..Len(result.choices.v) |->
              Event("gen_ai.choice",
                    [index |-> result.choices.v[k].index,
                     finish_reason |-> result.choices.v[k].finish_reason,
                     message |-> choice_to_message(result.choices.v[k])])]
    ELSE <<>>

\* faulty variant: the span is ended when the StreamWrapper is handed off
traced_method_EndsOnHandOff ==
    /\ pc = "call"
    /\ \E sampled \in BOOLEAN, failure \in Errors \cup {PyNone}, result \in Results :
          LET s0 == NewSpan(sampled)
              s1 == RequestSpan(s0, kwargs)
              ev1 == events \o RequestEvents(s0, kwargs)
          IN  IF failure.t # "NoneType"
              THEN /\ span' = record_error(failure, s1)
                   /\ events' = ev1
                   /\ self' = self
                   /\ outcome' = Raises("traced_method", failure)
                   /\ pc' = "raised"
              ELSE IF ~is_recording(s1)
              THEN /\ span' = s1
                   /\ events' = ev1
                   /\ self' = self
                   /\ outcome' = Returns("traced_method",
                                         IF is_streaming(kwargs) THEN RawStream ELSE result)
                   /\ pc' = "returned"
              ELSE IF is_streaming(kwargs)
              THEN /\ span' = end(s1)
                   /\ events' = ev1
                   /\ self' = StreamWrapper(NumChoices(kwargs))
                   /\ outcome' = Returns("traced_method", WrapperRef)
                   /\ pc' = "stream"
              ELSE /\ span' = ResponseSpan(s1, result)
                   /\ events' = ev1 \o ResponseEvents(result)
                   /\ self' = self
                   /\ outcome' = Returns("traced_method", result)
                   /\ pc' = "returned"
    /\ kwargs' = IF pc' = "stream" THEN NoKwargs ELSE kwargs
    /\ UNCHANGED <<upstream, stream_raised, returned, triggered>>

\* chat_completions_create.traced_method.  The tracer's sampling decision and
\* the wrapped call's outcome are inputs.  On a failure _record_error ends
\* the span and raises, so line 86 is never reached.
traced_method ==
    /\ pc = "call"
    /\ \E sampled \in BOOLEAN, failure \in Errors \cup {PyNone}, result \in Results :
          LET s0 == NewSpan(sampled)
              s1 == RequestSpan(s0, kwargs)
              ev1 == events \o RequestEvents(s0, kwargs)
          IN  IF failure.t # "NoneType"
              THEN /\ span' = record_error(failure, s1)
                   /\ events' = ev1
                   /\ self' = self
                   /\ outcome' = Raises("traced_method", failure)
                   /\ pc' = "raised"
              ELSE IF ~is_recording(s1)
              THEN /\ span' = s1
                   /\ events' = ev1
                   /\ self' = self
                   /\ outcome' = Returns("traced_method",
                                         IF is_streaming(kwargs) THEN RawStream ELSE result)
                   /\ pc' = "returned"
              ELSE IF is_streaming(kwargs)
              THEN /\ span' = s1
                   /\ events' = ev1
                   /\ self' = StreamWrapper(NumChoices(kwargs))
                   /\ outcome' = Returns("traced_method", WrapperRef)
                   /\ pc' = "stream"
              ELSE /\ span' = ResponseSpan(s1, result)
                   /\ events' = ev1 \o ResponseEvents(result)
                   /\ self' = self
                   /\ outcome' = Returns("traced_method", result)
                   /\ pc' = "returned"
    /\ kwargs' = IF pc' = "stream" THEN NoKwargs ELSE kwargs
    /\ UNCHANGED <<upstream, stream_raised, returned, triggered>>

stream_done == stream_raised.t # "NoneType"

\* A call that would finalize is explored only below the bound on span ends.
MayFinalize == self.span_started => CountEnds(span.log) < MaxEnds

\* StreamWrapper.__enter__
Enter ==
    /\ pc = "stream"
    /\ self' = setup(self)
    /\ outcome' = Returns("__enter__", WrapperRef)
    /\ UNCHANGED <<pc, kwargs, span, events, upstream, stream_raised, returned, triggered>>

\* StreamWrapper.__exit__ with the exception in flight in the scope body
\* (PyNone when there is none).  cleanup either raises exc_val or returns, and
\* then __exit__ returns None.
Exit ==
    /\ pc = "stream"
    /\ MayFinalize
    /\ \E exc_val \in Errors \cup {PyNone} :
          LET r == cleanup(self, span, events, exc_val)
          IN  /\ self' = r.self
              /\ span' = r.span
              /\ events' = r.events
              /\ outcome' = [(IF r.raised.t # "NoneType"
                              THEN Raises("__exit__", r.raised)
                              ELSE Returns("__exit__", PyNone)) EXCEPT !.arg = exc_val]
    /\ triggered' = TRUE
    /\ UNCHANGED <<pc, kwargs, upstream, stream_raised, returned>>

\* faulty variant: the chunk is processed but not handed to the caller
NextChunk_Drop ==
    /\ pc = "stream"
    /\ ~stream_done
    /\ \E chunk \in ChunksFor(self.num_choices) \cup ExampleChunks(self.num_choices) :
          /\ MayYield(upstream, chunk, self.num_choices)
          /\ upstream' = Append(upstream, chunk)
          /\ self' = process_chunk(self, chunk)
          /\ returned' = returned
          /\ outcome' = Returns("__next__", PyNone)
    /\ UNCHANGED <<pc, kwargs, span, events, stream_raised, triggered>>

\* faulty variant: the chunk is returned without being applied to the state
NextChunk_NoApply ==
    /\ pc = "stream"
    /\ ~stream_done
    /\ \E chunk \in ChunksFor(self.num_choices) \cup ExampleChunks(self.num_choices) :
          /\ MayYield(upstream, chunk, self.num_choices)
          /\ upstream' = Append(upstream, chunk)
          /\ self' = self
          /\ returned' = Append(returned, chunk)
          /\ outcome' = Returns("__next__", chunk)
    /\ UNCHANGED <<pc, kwargs, span, events, stream_raised, triggered>>

\* StreamWrapper.__next__, the upstream yields a chunk (lines 256-258)
NextChunk ==
    /\ pc = "stream"
    /\ ~stream_done
    /\ \E chunk \in ChunksFor(self.num_choices) \cup ExampleChunks(self.num_choices) :
          /\ MayYield(upstream, chunk, self.num_choices)
          /\ upstream' = Append(upstream, chunk)
          /\ self' = process_chunk(self, chunk)
          /\ returned' = Append(returned, chunk)
          /\ outcome' = Returns("__next__", chunk)
    /\ UNCHANGED <<pc, kwargs, span, events, stream_raised, triggered>>

\* faulty variant: StopIteration is re-raised without running cleanup
NextStop_NoCleanup ==
    /\ pc = "stream"
    /\ MayFinalize
    /\ outcome' = Raises("__next__", StopIteration)
    /\ stream_raised' = StopIteration
    /\ triggered' = TRUE
    /\ UNCHANGED <<pc, kwargs, upstream, returned, self, span, events>>

\* StreamWrapper.__next__, the upstream raises StopIteration (lines 259-261)
NextStop ==
    /\ pc = "stream"
    /\ MayFinalize
    /\ LET r == cleanup(self, span, events, PyNone)
       IN  /\ self' = r.self
           /\ span' = r.span
           /\ events' = r.events
           /\ outcome' = Raises("__next__", StopIteration)
    /\ stream_raised' = StopIteration
    /\ triggered' = TRUE
    /\ UNCHANGED <<pc, kwargs, upstream, returned>>

\* StreamWrapper.__next__, the upstream raises a failure (lines 262-264):
\* cleanup raises it from _record_error, or returns and the bare raise
\* re-raises it.
NextFail ==
    /\ pc = "stream"
    /\ ~stream_done
    /\ MayFinalize
    /\ \E e \in Errors :
          LET r == cleanup(self, span, events, e)
          IN  /\ self' = r.self
              /\ span' = r.span
              /\ events' = r.events
              /\ outcome' = Raises("__next__", IF r.raised.t # "NoneType" THEN r.raised ELSE e)
              /\ stream_raised' = e
    /\ triggered' = TRUE
    /\ UNCHANGED <<pc, kwargs, upstream, returned>>

Next ==
    \/ traced_method
    \/ Enter
    \/ Exit
    \/ NextChunk
    \/ NextStop
    \/ NextFail

Spec == Init /\ [][Next]_vars

TypeOK ==
    /\ pc \in {"call", "stream", "returned", "raised"}
    /\ stream_done \in BOOLEAN
    /\ triggered \in BOOLEAN

\* ------------------------------------------------------------ observations
RECURSIVE CountChoiceEvents(_)
CountChoiceEvents(evs) ==
    IF evs = <<>> THEN 0
    ELSE (IF evs[1].name = "gen_ai.choice" THEN 1 ELSE 0) + CountChoiceEvents(Tail(evs))

IsErrorType(entry, e) ==
    entry.op = "set_attribute" /\ entry.name = "error.type" /\ entry.value = PyStr(e.t)

IsErrorStatus(entry, e) ==
    entry.op = "set_status" /\ entry.code = "ERROR" /\ entry.description = e.msg

\* the calls added to the log after position `from` record failure e and end the span
RecordedSince(log, from, e) ==
    \E i, j, k \in (from + 1)..Len(log) :
        /\ i < k /\ j < k
        /\ IsErrorType(log[i], e)
        /\ IsErrorStatus(log[j], e)
        /\ log[k].op = "end"

IsError(x) == x.t \notin {"NoneType", "StopIteration"}

\* ---------------------------------------------------------------- C1
\* C1: on one StreamWrapper span.end() is called at most once and the
\* gen_ai.choice event sequence is emitted at most once in every reachable
\* state, and exactly once as soon as a finalization trigger has occurred.
C1_ExactlyOnceFinalization ==
    pc = "stream" =>
        /\ CountEnds(span.log) <= 1
        /\ CountChoiceEvents(events) <= self.num_choices
        /\ (triggered => /\ CountEnds(span.log) = 1
                         /\ CountChoiceEvents(events) = self.num_choices)

C4_ScopedRelease ==
    /\ [](outcome.op = "__exit__" => CountEnds(span.log) >= 1)
    /\ [][Exit =>
              /\ CountEnds(span'.log) >= 1
              /\ (self.span_started /\ outcome'.arg.t # "NoneType" =>
                      RecordedSince(span'.log, Len(span.log), outcome'.arg))
              /\ (outcome'.kind = "raise" => outcome'.exc = outcome'.arg)
              /\ (outcome'.kind = "return" => outcome'.value.t = "NoneType")]_vars

C4_Witness ==
    /\ pc = "stream"
    /\ outcome.op = "__exit__"
    /\ outcome.kind = "raise"
    /\ outcome.exc = outcome.arg
    /\ Len(returned) = 1
    /\ ~stream_done
    /\ CountEnds(span.log) = 1

\* ---------------------------------------------------------------- C5
\* the value of the last finish_reasons attribute set on the span
RECURSIVE LastFinishReasons(_)
LastFinishReasons(log) ==
    IF log = <<>> THEN <<>>
    ELSE LET last == log[Len(log)]
         IN  IF last.op = "set_attribute" /\ last.name = "gen_ai.response.finish_reasons"
             THEN last.value.v
             ELSE LastFinishReasons(SubSeq(log, 1, Len(log) - 1))

\* C5: in every finalization the finish_reason of each gen_ai.choice event
\* equals the entry at the same position of the finish_reasons attribute, and
\* a choice whose finish_reason was never set is reported as "error" in both.
C5_NullFinishReason ==
    (pc = "stream" /\ CountEnds(span.log) > 0) =>
        \A i \in 1..self.num_choices :
            LET ev == events[Len(events) - self.num_choices + i]
                fr == LastFinishReasons(span.log)[i]
            IN  /\ ev.body.finish_reason = fr
                /\ fr # None

\* ---------------------------------------------------------------- C6
\* the named field of the first chunk that carries a non-null value for it
RECURSIVE FirstNonNull(_, _)
FirstNonNull(chunks, field) ==
    IF chunks = <<>> THEN None
    ELSE IF chunks[1][field] # None THEN chunks[1][field]
    ELSE FirstNonNull(Tail(chunks), field)

\* C6: response_id is the id of the first chunk carrying a non-null id (null
\* if none) and response_model the model of the first chunk carrying a
\* non-null model; once set, no later chunk changes either.
C6_FirstWriteWins ==
    /\ [](pc = "stream" =>
            /\ self.response_id = FirstNonNull(upstream, "id")
            /\ self.response_model = FirstNonNull(upstream, "model"))
    /\ [][pc = "stream" =>
            /\ (self.response_id # None => self'.response_id = self.response_id)
            /\ (self.response_model # None => self'.response_model = self.response_model)]_vars

C6_Witness ==
    /\ pc = "stream"
    /\ upstream = IdExample
    /\ self.response_id = "abc"
    /\ self.response_model = "m1"

\* ---------------------------------------------------------------- C7
\* the usage of the latest chunk that carried usage data
RECURSIVE LastUsage(_)
LastUsage(chunks) ==
    IF chunks = <<>> THEN Usage(0, 0)
    ELSE IF chunks[Len(chunks)].usage.t # "NoneType" THEN chunks[Len(chunks)].usage
    ELSE LastUsage(SubSeq(chunks, 1, Len(chunks) - 1))

\* C7: prompt_tokens and completion_tokens are the values of the latest chunk
\* that carried usage data (overwritten, never summed); a chunk without usage
\* data leaves them unchanged.
C7_LastWriteWins ==
    pc = "stream" =>
        /\ self.prompt_tokens = LastUsage(upstream).prompt_tokens
        /\ self.completion_tokens = LastUsage(upstream).completion_tokens

C7_Witness ==
    /\ pc = "stream"
    /\ upstream = UsageExample
    /\ self.prompt_tokens = 10
    /\ self.completion_tokens = 2

\* ---------------------------------------------------------------- C8
\* the non-null text deltas addressed to index idx, concatenated in order
RECURSIVE DeltaText(_, _)
DeltaText(choices, idx) ==
    IF choices = <<>> THEN ""
    ELSE LET c == choices[1]
             here == IF c.t = "NoneType" THEN ""
                     ELSE IF c.index # idx THEN ""
                     ELSE IF c.delta.t = "NoneType" THEN ""
                     ELSE IF c.delta.content = None THEN ""
                     ELSE c.delta.content
         IN  here \o DeltaText(Tail(choices), idx)

RECURSIVE TextOf(_, _)
TextOf(chunks, idx) ==
    IF chunks = <<>> THEN ""
    ELSE (IF chunks[1].choices.t = "NoneType" THEN ""
          ELSE DeltaText(chunks[1].choices.v, idx)) \o TextOf(Tail(chunks), idx)

IsPrefix(a, b) == Len(a) <= Len(b) /\ SubSeq(b, 1, Len(a)) = a

\* C8: the accumulated text of choice i is the concatenation, in arrival
\* order, of the non-null text deltas addressed to index i; it only grows by
\* appending, and deltas for other indices never change it.
C8_TextAccumulation ==
    /\ [](pc = "stream" =>
            \A k \in 1..self.num_choices :
                self.choices[k].content_str = TextOf(upstream, k - 1))
    /\ [][pc = "stream" =>
            \A k \in 1..self.num_choices :
                IsPrefix(self.choices[k].content_str, self'.choices[k].content_str)]_vars

C8_Witness ==
    /\ pc = "stream"
    /\ self.num_choices = 2
    /\ upstream = TextExample
    /\ self.choices[1].content_str = "Hello"
    /\ self.choices[2].content_str = ""

\* ---------------------------------------------------------------- C9
\* C9: each finalization emits exactly N gen_ai.choice events, event i with
\* index i and the accumulated text of choice i, and sets finish_reasons to a
\* list of length N; the end-to-end scenario followed by exhaustion, with no
\* earlier trigger, yields
\* response_id "r1", texts "A!" and "B", two events, finish_reasons
\* ["stop", "stop"] and one span end.
C9_FinalizationOutput ==
    /\ [][(pc = "stream" /\ CountEnds(span'.log) > CountEnds(span.log)) =>
            /\ Len(events') = Len(events) + self.num_choices
            /\ \A i \in 1..self.num_choices :
                  LET ev == events'[Len(events) + i]
                  IN  /\ ev.name = "gen_ai.choice"
                      /\ ev.body.index = i - 1
                      /\ ev.body.message.content = self.choices[i].content_str
            /\ Len(LastFinishReasons(span'.log)) = self.num_choices
            /\ \A i \in 1..self.num_choices :
                  LastFinishReasons(span'.log)[i] =
                      (IF self.choices[i].finish_reason = None THEN "error"
                       ELSE self.choices[i].finish_reason)]_vars
    /\ [][(pc = "stream" /\ upstream = Scenario /\ ~triggered
                /\ stream_raised' = StopIteration) =>
            /\ self'.response_id = "r1"
            /\ CountEnds(span'.log) = 1
            /\ CountChoiceEvents(events') = 2
            /\ events'[Len(events') - 1].body.message.content = "A!"
            /\ events'[Len(events')].body.message.content = "B"
            /\ LastFinishReasons(span'.log) = <<"stop", "stop">>]_vars

C9_Witness ==
    /\ pc = "stream"
    /\ upstream = Scenario
    /\ outcome = Raises("__next__", StopIteration)
    /\ ~self.span_started
    /\ CountEnds(span.log) = 1
    /\ CountChoiceEvents(events) = 2
    /\ events[Len(events) - 1].body.message.content = "A!"
    /\ LastFinishReasons(span.log) = <<"stop", "stop">>

\* ---------------------------------------------------------------- C10
\* C10: when a non-streaming call through traced_method has returned or
\* raised, span.end() has been called exactly once.
C10_NonStreamingEndsOnce ==
    (pc \in {"returned", "raised"} /\ ~is_streaming(kwargs)) => CountEnds(span.log) = 1

\* ---------------------------------------------------------------- C11
\* the last call was one of the three finalization triggers: __exit__, or a
\* __next__ that met exhaustion or an upstream failure
LastCallWasTrigger(o) ==
    o.op = "__exit__" \/ (o.op = "__next__" /\ o.kind = "raise")

\* C11: the StreamWrapper is handed off with its span not ended, the span
\* stays un-ended while only chunks are pulled (and __enter__ is called), and
\* a step ends the span only if it is one of the three triggers.
C11_HandOffLeavesSpanOpen ==
    /\ []((pc = "stream" /\ ~triggered) => CountEnds(span.log) = 0)
    /\ [][(pc = "stream" /\ CountEnds(span'.log) > CountEnds(span.log)) =>
              (triggered' /\ LastCallWasTrigger(outcome'))]_vars
    /\ [][(pc = "call" /\ pc' = "stream") =>
              (CountEnds(span'.log) = 0 /\ self'.span_started)]_vars

C11_Witness ==
    /\ pc = "stream"
    /\ ~triggered
    /\ Len(returned) = 3
    /\ outcome.op = "__next__"
    /\ outcome.kind = "return"
    /\ CountEnds(span.log) = 0

\* ---------------------------------------------------------------- C12
\* C12: once any trigger has finalized the wrapper, a __next__ call that
\* meets exhaustion raises StopIteration and one that meets an upstream
\* failure raises that failure, and neither makes a call on the span nor
\* emits an event.
C12_ReRaiseWhenFinalized ==
    [][(pc = "stream" /\ triggered /\ (NextStop \/ NextFail)) =>
          /\ outcome' = Raises("__next__", stream_raised')
          /\ span' = span
          /\ events' = events]_vars

\* ---------------------------------------------------------------- C13
HasAttribute(log, name) ==
    \E k \in 1..Len(log) : log[k].op = "set_attribute" /\ log[k].name = name

\* C13: the optional request attribute (temperature) is set on the span only
\* if its argument is present (not None) and is not the NOT_GIVEN sentinel.
C13_OptionalAttributeNotSentinel ==
    (pc \in {"returned", "raised"}
        /\ HasAttribute(span.log, "gen_ai.request.temperature")) =>
            kwargs.temperature.t \notin {"NoneType", "NotGiven"}

\* ---------------------------------------------------------------- C14
\* C14: once cleanup has cleared the _span_started flag, no later operation
\* on the wrapper sets it again.
C14_FinalizedIsTerminal ==
    [][(pc = "stream" /\ triggered /\ ~self.span_started) => ~self'.span_started]_vars

\* ---------------------------------------------------------------- C15
\* the last non-null finish reason the chunks carry for index idx
RECURSIVE LastFinish(_, _)
LastFinish(choices, idx) ==
    IF choices = <<>> THEN None
    ELSE LET c == choices[Len(choices)]
             rest == SubSeq(choices, 1, Len(choices) - 1)
         IN  IF c.t # "NoneType" /\ c.index = idx /\ c.finish_reason # None
             THEN c.finish_reason
             ELSE LastFinish(rest, idx)

RECURSIVE AllChoices(_)
AllChoices(chunks) ==
    IF chunks = <<>> THEN <<>>
    ELSE (IF chunks[1].choices.t = "NoneType" THEN <<>> ELSE chunks[1].choices.v)
         \o AllChoices(Tail(chunks))

DeltasFor(chunk, idx) ==
    IF chunk.choices.t = "NoneType" THEN <<>>
    ELSE SelectSeq(chunk.choices.v, LAMBDA c : c.t # "NoneType" /\ c.index = idx)

FirstEnd(log) ==
    IF \E k \in 1..Len(log) : log[k].op = "end"
    THEN CHOOSE k \in 1..Len(log) :
            log[k].op = "end" /\ \A j \in 1..(k - 1) : log[j].op # "end"
    ELSE 0

\* C17: a finalization writes the response attributes, emits the choice
\* events, writes finish_reasons, records an in-flight failure and ends the
\* span, in that order: finish_reasons is on the span before its end, and
\* no attribute or status is written to the span after its end.
C17_FinalizationStepOrder ==
    (pc = "stream" /\ FirstEnd(span.log) # 0) =>
              /\ \E k \in 1..(FirstEnd(span.log) - 1) :
                    span.log[k].op = "set_attribute"
                    /\ span.log[k].name = "gen_ai.response.finish_reasons"
              /\ \A k \in (FirstEnd(span.log) + 1)..Len(span.log) :
                    span.log[k].op \notin {"set_attribute", "set_status"}

\* ---------------------------------------------------------------- C18
\* The caller of C18 only iterates: after the call it keeps calling __next__
\* on the wrapper, and the upstream is a finite sequence that never fails.
NextExhaust ==
    \/ traced_method
    \/ NextChunk
    \/ NextStop

\* The caller's loop does not stop while __next__ can still make progress.
SpecExhaust == Init /\ [][NextExhaust]_vars /\ WF_vars(NextChunk \/ NextStop)

HasError(log) ==
    \E k \in 1..Len(log) :
        \/ log[k].op = "set_attribute" /\ log[k].name = "error.type"
        \/ log[k].op = "set_status" /\ log[k].code = "ERROR"

\* C18: a caller that keeps calling __next__ on an open wrapper over a finite
\* upstream that never fails eventually gets StopIteration from a finalized
\* wrapper whose span is ended, and the span never carries error.type or an
\* ERROR status.
C18_ExhaustionFinalizes ==
    /\ (pc = "stream" /\ self.span_started) ~>
           (/\ pc = "stream"
            /\ ~self.span_started
            /\ outcome = Raises("__next__", StopIteration)
            /\ CountEnds(span.log) = 1
            /\ CountChoiceEvents(events) = self.num_choices)
    /\ [](pc = "stream" => ~HasError(span.log))

C18_Witness ==
    /\ pc = "stream"
    /\ upstream = Scenario
    /\ returned = Scenario
    /\ outcome = Raises("__next__", StopIteration)
    /\ ~self.span_started
    /\ CountEnds(span.log) = 1
    /\ ~HasError(span.log)

\* ---------------------------------------------------------------- C19
\* C19: in every state of a StreamWrapper the span has been ended by the
\* wrapper if and only if the _span_started flag is false.
C19_FlagSpanConsistency ==
    pc = "stream" => ((CountEnds(span.log) >= 1) <=> ~self.span_started)

\* ---------------------------------------------------------------- C20
\* the accumulated response state of a wrapper
Accumulated(s) ==
    [response_id |-> s.response_id, response_model |-> s.response_model,
     prompt_tokens |-> s.prompt_tokens, completion_tokens |-> s.completion_tokens,
     choices |-> s.choices]

\* C20 as stated: once the span of a wrapper has been ended, no later call
\* changes response_id, response_model, the token counts or any choice's
\* finish_reason and text.
C20_FrozenAtFinalization ==
    [][(pc = "stream" /\ CountEnds(span.log) >= 1) =>
          Accumulated(self') = Accumulated(self)]_vars

\* C20 amended: a call that hands no chunk to the caller (a finalization by
\* __exit__, exhaustion or failure, and __enter__) leaves the accumulated
\* state unchanged, while a __next__ that receives a chunk after the
\* finalization still applies it; the emitted values are those at the
\* finalization, not necessarily the wrapper's final state.
C20_FrozenExceptByChunks ==
    /\ [][(pc = "stream" /\ returned' = returned) =>
            Accumulated(self') = Accumulated(self)]_vars
    /\ [][(pc = "stream" /\ CountEnds(span.log) >= 1 /\ returned' # returned) =>
            Accumulated(self') =
                Accumulated(process_chunk(self, returned'[Len(returned')]))]_vars

C20_Witness ==
    /\ pc = "stream"
    /\ CountEnds(span.log) = 1
    /\ ~self.span_started
    /\ outcome.op = "__next__" /\ outcome.kind = "return"
    /\ \E k \in 1..Len(events) :
          /\ events[k].name = "gen_ai.choice"
          /\ events[k].body.index = 0
          /\ events[k].body.message.content = ""
          /\ self.choices[1].content_str # ""

====
